---------------------------- MODULE Spec2Model ----------------------------
(***************************************************************************)
(* Model of s2s.time.AdventCalendar (src/s2s/time.py): the calendar        *)
(* object, its realization for one year (map_year), for a range of years   *)
(* (map_years) and for the period of an input data set (map_to_data).      *)
(*                                                                         *)
(* Timestamps are modelled at day resolution as proleptic Gregorian day    *)
(* ordinals; a frequency "<k>d" is modelled as the integer k.              *)
(***************************************************************************)
EXTENDS Integers, Sequences, FiniteSets, TLC

VARIABLES calendar, op, args, ret

vars == <<calendar, op, args, ret>>

---------------------------------------------------------------------------
(* Bounds of the model *)

BaseYear == 2019
NumYears == 4

Years == BaseYear .. (BaseYear + NumYears - 1)

\* anchor dates (month, day) the calendars are built with
AnchorDates == { <<12, 31>>, <<1, 10>>, <<2, 29>>, <<6, 30>> }

\* frequencies in days ("7d", "60d", "180d", "400d")
Freqs == { 7, 60, 180, 400 }

\* months and days of the first / last timestamp of the input data
DataMonths == { 1, 3, 7, 12 }
DataDays == { 1, 20 }

---------------------------------------------------------------------------
(* Dates: what pd.Timestamp(year, month, day) and Timestamp arithmetic do *)

DaysPerYear == 365

IsLeap(y) == (y % 4 = 0) /\ ((y % 100 # 0) \/ (y % 400 = 0))

DaysInMonth(y, m) ==
    IF m = 2 THEN (IF IsLeap(y) THEN 29 ELSE 28)
    ELSE IF m \in {4, 6, 9, 11} THEN 30 ELSE 31

DaysBeforeYear(y) ==
    365 * (y - 1) + ((y - 1) \div 4) - ((y - 1) \div 100) + ((y - 1) \div 400)

RECURSIVE DaysBeforeMonth(_, _)
DaysBeforeMonth(y, m) ==
    IF m = 1 THEN 0 ELSE DaysBeforeMonth(y, m - 1) + DaysInMonth(y, m - 1)

\* pd.Timestamp(y, m, d) raises ValueError when the date does not exist
ValidDate(y, m, d) == m \in 1..12 /\ d \in 1..DaysInMonth(y, m)

\* the day ordinal of an existing date
Timestamp(y, m, d) == DaysBeforeYear(y) + DaysBeforeMonth(y, m) + d

---------------------------------------------------------------------------
(* Values returned or raised by the methods *)

Raise(exc, msg) == [kind |-> "raise", exc |-> exc, msg |-> msg]

Interval(l, r) == [left |-> l, right |-> r]

\* pd.Interval membership with closed='right': left < t <= right
Contains(iv, t) == iv.left < t /\ t <= iv.right

\* python slicing s[::-1]
Reversed(s) == [k \in 1..Len(s) |-> s[Len(s) + 1 - k]]

\* the index label f"t-{i}"
Label(i) == <<"t-", i>>

\* str(year): the text of the number, not the number
Str(year) == <<"str", year>>

\* interval_range with every interval reaching one day further back
interval_range_overlapping(end, periods, freq) ==
    LET start == end - periods * freq
        breaks == [k \in 1..(periods + 1) |-> start + (k - 1) * freq]
    IN  [k \in 1..periods |-> Interval(breaks[k] - 1, breaks[k + 1])]

\* pd.interval_range(end=end, periods=periods, freq=freq): periods + 1 breaks
\* spaced freq apart and ending at end; one right-closed interval per pair of
\* consecutive breaks, in ascending order
interval_range(end, periods, freq) ==
    LET start == end - periods * freq
        breaks == [k \in 1..(periods + 1) |-> start + (k - 1) * freq]
    IN  [k \in 1..periods |-> Interval(breaks[k], breaks[k + 1])]

---------------------------------------------------------------------------
(* AdventCalendar *)

\* an __init__ that rounds the number of intervals up, so that they cover
\* the whole year
AdventCalendar_rounding_up(anchor_date, freq) ==
    [month |-> anchor_date[1],
     day |-> anchor_date[2],
     freq |-> freq,
     n_intervals |-> (DaysPerYear + freq - 1) \div freq,
     n_target |-> 1]

\* __init__: month, day, freq, _n_intervals = 365 days // freq, _n_target = 1
AdventCalendar(anchor_date, freq) ==
    [month |-> anchor_date[1],
     day |-> anchor_date[2],
     freq |-> freq,
     n_intervals |-> DaysPerYear \div freq,
     n_target |-> 1]

\* map_year without the [::-1]: the earliest interval comes first
map_year_unreversed(self, year) ==
    IF ~ValidDate(year, self.month, self.day)
    THEN Raise("ValueError", "day is out of range for month")
    ELSE LET anchor == Timestamp(year, self.month, self.day)
             intervals == interval_range(anchor, self.n_intervals, self.freq)
         IN  [kind |-> "Series",
              name |-> Str(year),
              index |-> [i \in 1..Len(intervals) |-> Label(i - 1)],
              values |-> intervals]

\* map_year with the calendar year divided into n_intervals equal parts
map_year_fill_year(self, year) ==
    IF ~ValidDate(year, self.month, self.day)
    THEN Raise("ValueError", "day is out of range for month")
    ELSE LET anchor == Timestamp(year, self.month, self.day)
             cycle == DaysBeforeYear(year + 1) - DaysBeforeYear(year)
             part == IF self.n_intervals = 0 THEN self.freq
                     ELSE cycle \div self.n_intervals
             intervals == Reversed(interval_range(anchor, self.n_intervals, part))
         IN  [kind |-> "Series",
              name |-> Str(year),
              index |-> [i \in 1..Len(intervals) |-> Label(i - 1)],
              values |-> intervals]

\* map_year: the intervals of the calendar for one year, t-0 first
map_year(self, year) ==
    IF ~ValidDate(year, self.month, self.day)
    THEN Raise("ValueError", "day is out of range for month")
    ELSE LET anchor == Timestamp(year, self.month, self.day)
             intervals == Reversed(interval_range(anchor, self.n_intervals, self.freq))
         IN  [kind |-> "Series",
              name |-> Str(year),
              index |-> [i \in 1..Len(intervals) |-> Label(i - 1)],
              values |-> intervals]

\* the first exception raised while building [f(y) for y in start..end]
FirstRaise(results) ==
    results[CHOOSE k \in 1..Len(results) :
                /\ results[k].kind = "raise"
                /\ \A j \in 1..(k - 1) : results[j].kind # "raise"]

\* pd.concat(series, axis=1): one column per series (named after it), one
\* row per index label
concat_axis1(series) ==
    [kind |-> "DataFrame",
     index |-> series[1].index,
     columns |-> [c \in 1..Len(series) |-> series[c].name],
     data |-> [r \in 1..Len(series[1].index) |->
                  [c \in 1..Len(series) |-> series[c].values[r]]]]

\* DataFrame.T
Transposed(df) ==
    [kind |-> "DataFrame",
     index |-> df.columns,
     columns |-> df.index,
     data |-> [r \in 1..Len(df.columns) |->
                  [c \in 1..Len(df.index) |-> df.data[c][r]]]]

\* DataFrame[::-1] left out: the rows stay in ascending order
RowsNotReversed(df) == df

\* DataFrame[::-1]: the rows in reverse order
ReversedRows(df) ==
    [kind |-> "DataFrame",
     index |-> Reversed(df.index),
     columns |-> df.columns,
     data |-> Reversed(df.data)]

\* DataFrame.stack().reset_index(drop=True): the cells row by row, numbered
\* from 0
StackedResetIndex(df) ==
    LET ncols == Len(df.columns)
        total == Len(df.index) * ncols
    IN  [kind |-> "Series",
         name |-> "None",
         index |-> [k \in 1..total |-> k - 1],
         values |-> [k \in 1..total |->
                        df.data[((k - 1) \div ncols) + 1][((k - 1) % ncols) + 1]]]

\* map_years: map_year for every year of start..end, most recent year first
map_years(self, start, end, flat) ==
    LET series == [k \in 1..(end + 1 - start) |-> map_year(self, start + k - 1)]
    IN  IF \E k \in 1..Len(series) : series[k].kind = "raise"
        THEN FirstRaise(series)
        ELSE IF Len(series) = 0
        THEN Raise("ValueError", "No objects to concatenate")
        ELSE LET index == ReversedRows(Transposed(concat_axis1(series)))
             IN  IF flat THEN StackedResetIndex(index) ELSE index

\* map_to_data: the calendar for the years of the input data's period;
\* first_timestamp / last_timestamp are input_data.index.min() / .max(),
\* given as dates [year, month, day]
map_to_data(self, first_timestamp, last_timestamp, flat) ==
    LET first == Timestamp(first_timestamp.year, first_timestamp.month, first_timestamp.day)
        last == Timestamp(last_timestamp.year, last_timestamp.month, last_timestamp.day)
        of_last == map_year(self, last_timestamp.year)
        of_first == map_year(self, first_timestamp.year)
    IN  IF of_last.kind = "raise" THEN of_last
        ELSE IF Len(of_last.values) = 0
        THEN Raise("IndexError", "single positional indexer is out-of-bounds")
        ELSE IF of_first.kind = "raise" THEN of_first
        ELSE
        LET map_last_year ==
                IF of_last.values[1].right > last
                THEN last_timestamp.year - 1 ELSE last_timestamp.year
            map_first_year ==
                IF of_first.values[Len(of_first.values)].left < first
                THEN first_timestamp.year + 1 ELSE first_timestamp.year
        IN  IF map_last_year > map_first_year
            THEN map_years(self, map_first_year, map_last_year, flat)
            ELSE IF map_last_year = map_first_year
            THEN map_year(self, map_last_year)
            ELSE Raise("ValueError",
                       "The input data could not cover the target advent calendar.")

---------------------------------------------------------------------------
(* The state machine: a constructed calendar and the last call made on it *)

Calendars == { AdventCalendar(a, f) : a \in AnchorDates, f \in Freqs }

\* the dates an input data set can start or end on
DataDates ==
    { d \in [year : Years, month : DataMonths, day : DataDays] :
        ValidDate(d.year, d.month, d.day) }

DateOrd(d) == Timestamp(d.year, d.month, d.day)

Init ==
    /\ calendar \in Calendars
    /\ op = "ready"
    /\ args = <<>>
    /\ ret = "None"

\* a map_year that stores the number of intervals it realized on the object
MapYear_storing_count ==
    \E year \in Years :
        /\ op = "ready"
        /\ op' = "map_year"
        /\ args' = [year |-> year]
        /\ ret' = map_year(calendar, year)
        /\ calendar' = [calendar EXCEPT !.n_intervals =
                           IF ret'.kind = "raise" THEN 0 ELSE Len(ret'.values)]

MapYear ==
    \E year \in Years :
        /\ op = "ready"
        /\ op' = "map_year"
        /\ args' = [year |-> year]
        /\ ret' = map_year(calendar, year)
        /\ UNCHANGED calendar

MapYears ==
    \E start \in Years, end \in Years, flat \in BOOLEAN :
        /\ op = "ready"
        /\ op' = "map_years"
        /\ args' = [start |-> start, end |-> end, flat |-> flat]
        /\ ret' = map_years(calendar, start, end, flat)
        /\ UNCHANGED calendar

MapToData ==
    \E first \in DataDates, last \in DataDates, flat \in BOOLEAN :
        /\ op = "ready"
        /\ DateOrd(first) <= DateOrd(last)
        /\ op' = "map_to_data"
        /\ args' = [first |-> first, last |-> last, flat |-> flat]
        /\ ret' = map_to_data(calendar, first, last, flat)
        /\ UNCHANGED calendar

\* the caller is done with the returned value (or the exception); the
\* calendar is ready for the next call
Discard ==
    /\ op # "ready"
    /\ op' = "ready"
    /\ args' = <<>>
    /\ ret' = "None"
    /\ UNCHANGED calendar

Next == MapYear \/ MapYears \/ MapToData \/ Discard

Spec == Init /\ [][Next]_vars

---------------------------------------------------------------------------
(* Calendar of interval specs, its realization and resample.  The source   *)
(* has only a stub of resample (s2s/time.py raises NotImplementedError) and *)
(* the tests of it; this part follows the specification.                    *)
(*                                                                          *)
(* The input data is a one-dimensional series sampled every `step` days;    *)
(* sample k holds the value 2^(k-1), so that a sum tells which samples went *)
(* into it.                                                                 *)

MaxSpecs == 2
MaxSamples == 6

Names == { "A", "B", "C" }
Roles == { "target", "precursor" }
Lengths == { 0, 2, 3 }
Gaps == { -2, 0 }
Hows == { "sum", "mean" }

ReservedNames == { "anchor_year", "i_interval", "is_target" }

\* the missing-value marker, a number, an exact fraction sum / count
NaN == <<"NaN">>
Number(x) == <<"number", x>>
Fraction(x, n) == <<"fraction", x, n>>

\* Calendar construction: an anchor and no interval specs
Calendar(anchor) == [kind |-> "Calendar", anchor |-> anchor, specs |-> <<>>]

\* add_interval: the calendar with one more IntervalSpec, or the error
add_interval(self, name, role, length, gap) ==
    IF \E i \in 1..Len(self.specs) : self.specs[i].name = name
    THEN Raise("ConfigurationError", "name already used")
    ELSE IF length <= 0
    THEN Raise("ConfigurationError", "length must be positive")
    ELSE [kind |-> "Calendar",
          anchor |-> self.anchor,
          specs |-> Append(self.specs,
                           [name |-> name, role |-> role,
                            length |-> length, gap |-> gap])]

\* the right bound of interval i of a year: the anchor for the first one,
\* the left bound of the one before, moved back by the gap, for the others
RECURSIVE right_bound(_, _, _)
right_bound(specs, anchor, i) ==
    IF i = 1 THEN anchor
    ELSE right_bound(specs, anchor, i - 1) - specs[i - 1].length - specs[i].gap

\* realize_year: the RealizedCalendar of one anchor year
realize_year(self, year) ==
    LET anchor == Timestamp(year, self.anchor[1], self.anchor[2])
    IN  [anchor_year |-> year,
         intervals |->
             [i \in 1..Len(self.specs) |->
                 LET right == right_bound(self.specs, anchor, i)
                 IN  [label |-> Label(i - 1),
                      left |-> right - self.specs[i].length,
                      right |-> right,
                      role |-> self.specs[i].role]]]

\* realize_range: one RealizedCalendar per year, most recent year first
realize_range(self, first_year, last_year) ==
    [k \in 1..(last_year + 1 - first_year) |-> realize_year(self, last_year + 1 - k)]

RECURSIVE Pow2(_)
Pow2(k) == IF k = 0 THEN 1 ELSE 2 * Pow2(k - 1)

\* a series of n samples, the first at `start`, one every `step` days
Series(index_type, column, start, step, n) ==
    [index_type |-> index_type,
     column |-> column,
     step |-> step,
     times |-> [k \in 1..n |-> start + (k - 1) * step],
     values |-> [k \in 1..n |-> Pow2(k - 1)]]

RECURSIVE SumOver(_, _)
SumOver(values, picked) ==
    IF picked = {} THEN 0
    ELSE LET k == CHOOSE x \in picked : TRUE
         IN  values[k] + SumOver(values, picked \ {k})

\* a reducer that gives an empty bag the value zero
Reduce_zero_when_empty(how, values, picked) ==
    IF how = "sum" THEN Number(SumOver(values, picked))
    ELSE IF picked = {} THEN Number(0)
    ELSE Fraction(SumOver(values, picked), Cardinality(picked))

\* the reducer applied to the bag of the picked samples; the mean is kept as
\* the exact fraction <<sum, count>>; an empty bag gives the missing value
Reduce(how, values, picked) ==
    IF picked = {} THEN NaN
    ELSE IF how = "sum" THEN Number(SumOver(values, picked))
    ELSE Fraction(SumOver(values, picked), Cardinality(picked))

\* a resample that hands each sample to the first interval holding it only
samples_in_partition(data, realized, y, i) ==
    { k \in 1..Len(data.times) :
        /\ Contains(realized[y].intervals[i], data.times[k])
        /\ \A j \in 1..(i - 1) : ~Contains(realized[y].intervals[j], data.times[k]) }

\* a resample that takes both bounds of an interval as inside
samples_in_closed(data, realized, y, i) ==
    { k \in 1..Len(data.times) :
        /\ realized[y].intervals[i].left <= data.times[k]
        /\ data.times[k] <= realized[y].intervals[i].right }

\* the samples of the data that one cell aggregates: every interval is
\* looked up in the whole series
samples_in(data, realized, y, i) ==
    { k \in 1..Len(data.times) : Contains(realized[y].intervals[i], data.times[k]) }

\* a frequency check that lets an interval of half a sampling step pass
too_low_frequency_halved(shortest, step) == 2 * shortest < step

\* step 3 of resample: the shortest interval is shorter than one sampling
\* step of the data (fatal)
too_low_frequency(shortest, step) == shortest < step

\* step 3 of resample: the shortest interval is at most 1.5 sampling steps
\* long (warning)
low_frequency(shortest, step) == 2 * shortest <= 3 * step

\* steps 3 to 5 of resample: the frequency check, the cells, the warnings
resample_checked(realized, data, how) ==
    LET cells == UNION { { <<y, i>> : i \in 1..Len(realized[y].intervals) } :
                           y \in 1..Len(realized) }
        shortest ==
            CHOOSE l \in { realized[c[1]].intervals[c[2]].right
                             - realized[c[1]].intervals[c[2]].left : c \in cells } :
                \A c \in cells :
                    l <= realized[c[1]].intervals[c[2]].right
                           - realized[c[1]].intervals[c[2]].left
        rows ==
            [y \in 1..Len(realized) |->
                [i \in 1..Len(realized[y].intervals) |->
                    LET iv == realized[y].intervals[i]
                    IN  [anchor_year |-> realized[y].anchor_year,
                         label |-> iv.label,
                         left |-> iv.left,
                         right |-> iv.right,
                         value |-> Reduce(how, data.values,
                                          samples_in(data, realized, y, i)),
                         is_target |-> (iv.role = "target")]]]
        low == IF low_frequency(shortest, data.step)
               THEN <<"LowFrequencyWarning">> ELSE <<>>
        missing == IF \E c \in cells : rows[c[1]][c[2]].value = NaN
                   THEN <<"MissingDataWarning">> ELSE <<>>
    IN  IF too_low_frequency(shortest, data.step)
        THEN Raise("IncompatibleFrequencyError", "too low frequency")
        ELSE [kind |-> "ResampledFrame",
              rows |-> rows,
              warnings |-> low \o missing]

\* resample without the check for an empty calendar
resample_unguarded(realized, data, how) ==
    IF data.index_type # "datetime"
    THEN Raise("InvalidIndexError", "the time axis is not timestamp-typed")
    ELSE IF data.column \in ReservedNames
    THEN Raise("ReservedNameError", data.column)
    ELSE IF \A y \in 1..Len(realized) : Len(realized[y].intervals) = 0
    THEN [kind |-> "ResampledFrame",
          rows |-> [y \in 1..Len(realized) |-> <<>>],
          warnings |-> <<>>]
    ELSE resample_checked(realized, data, how)

\* resample: the input checks in order, then the aggregation
resample(realized, data, how) ==
    IF \A y \in 1..Len(realized) : Len(realized[y].intervals) = 0
    THEN Raise("EmptyCalendarError", "calendar has no intervals")
    ELSE IF data.index_type # "datetime"
    THEN Raise("InvalidIndexError", "the time axis is not timestamp-typed")
    ELSE IF data.column \in ReservedNames
    THEN Raise("ReservedNameError", data.column)
    ELSE resample_checked(realized, data, how)

\* the data sets resample is given for a calendar: series that start a few
\* days before the anchor of BaseYear, and two malformed ones
DataSets(self) ==
    LET anchor == Timestamp(BaseYear, self.anchor[1], self.anchor[2])
    IN  { Series("datetime", "data1", anchor - back, step, MaxSamples) :
              back \in {5, 6}, step \in {1, 2, 3} }
        \cup { Series("int", "data1", anchor - 6, 1, MaxSamples),
               Series("datetime", "anchor_year", anchor - 6, 1, MaxSamples) }

InitResample ==
    /\ calendar = Calendar(<<10, 15>>)
    /\ op = "ready"
    /\ args = <<>>
    /\ ret = "None"

AddInterval ==
    \E name \in Names, role \in Roles, length \in Lengths, gap \in Gaps :
        LET added == add_interval(calendar, name, role, length, gap)
        IN  /\ op = "ready"
            /\ Len(calendar.specs) < MaxSpecs
            /\ op' = "add_interval"
            /\ args' = [name |-> name, role |-> role, length |-> length, gap |-> gap]
            /\ IF added.kind = "raise"
               THEN calendar' = calendar /\ ret' = added
               ELSE calendar' = added /\ ret' = "None"

Resample ==
    \E last_year \in {BaseYear, BaseYear + 1}, how \in Hows :
        \E data \in DataSets(calendar) :
            /\ op = "ready"
            /\ op' = "resample"
            /\ args' = [first_year |-> BaseYear, last_year |-> last_year,
                        data |-> data, how |-> how]
            /\ ret' = resample(realize_range(calendar, BaseYear, last_year), data, how)
            /\ UNCHANGED calendar

NextResample == AddInterval \/ Resample \/ Discard

SpecResample == InitResample /\ [][NextResample]_vars

---------------------------------------------------------------------------
(* Helpers of the properties *)

\* every interval of a returned Series or DataFrame
IntervalsOf(r) ==
    IF r.kind = "Series"
    THEN { r.values[k] : k \in 1..Len(r.values) }
    ELSE UNION { { r.data[i][k] : k \in 1..Len(r.data[i]) } : i \in 1..Len(r.data) }

\* the anchor years a data period can touch, and one more on either side
CandidateYears == (BaseYear - 1) .. (BaseYear + NumYears)

\* the realization of year y exists, has at least one interval and lies
\* inside [tmin, tmax]
FullyCovered(self, y, tmin, tmax) ==
    LET r == map_year(self, y)
    IN  /\ r.kind = "Series"
        /\ Len(r.values) >= 1
        /\ r.values[Len(r.values)].left >= tmin
        /\ r.values[1].right <= tmax

\* realize_year(b) ++ realize_year(b - 1) ++ ... ++ realize_year(a)
RECURSIVE ConcatYearsDescending(_, _, _)
ConcatYearsDescending(self, a, b) ==
    IF b < a THEN <<>>
    ELSE map_year(self, b).values \o ConcatYearsDescending(self, a, b - 1)

AnchorExistsIn(self, y) == ValidDate(y, self.month, self.day)

---------------------------------------------------------------------------
(* Properties *)

\* C1: every interval map_to_data returns lies inside the period of the
\* input data: its left bound is >= the first timestamp and its right bound
\* is <= the last timestamp (so every returned anchor year is fully covered).
C1_ReturnedYearsCovered ==
    (op = "map_to_data" /\ ret.kind # "raise") =>
        \A iv \in IntervalsOf(ret) :
            /\ iv.left >= DateOrd(args.first)
            /\ iv.right <= DateOrd(args.last)

\* C2: when some anchor year is fully covered by the input data, map_to_data
\* returns a result, and the result holds every interval of every fully
\* covered year.
C2_CoveredYearsReturned ==
    op = "map_to_data" =>
        \A y \in CandidateYears :
            FullyCovered(calendar, y, DateOrd(args.first), DateOrd(args.last)) =>
                /\ ret.kind # "raise"
                /\ IntervalsOf(map_year(calendar, y)) \subseteq IntervalsOf(ret)

\* C3: when no anchor year is fully covered by the input data, map_to_data
\* raises its error (a ValueError) and returns nothing.
C3_UncoveredDataRaises ==
    ( /\ op = "map_to_data"
      /\ calendar.n_intervals >= 1
      /\ \A y \in CandidateYears :
             ~FullyCovered(calendar, y, DateOrd(args.first), DateOrd(args.last)) )
    => (ret.kind = "raise" /\ ret.exc = "ValueError")

\* C4: for a year in which the anchor date exists, map_year returns exactly
\* 365 // freq intervals, labelled t-0, t-1, ... t-(n-1) in this order, and
\* the right bound of t-0 is the anchor date of that year.  (Feb 29 in a
\* non-leap year is no date: map_year raises there, see ValidDate.)
C4_MapYearCountLabelsAnchor ==
    (op = "map_year" /\ AnchorExistsIn(calendar, args.year)) =>
        /\ ret.kind = "Series"
        /\ Len(ret.values) = DaysPerYear \div calendar.freq
        /\ Len(ret.index) = Len(ret.values)
        /\ \A i \in 1..Len(ret.index) : ret.index[i] = Label(i - 1)
        /\ Len(ret.values) >= 1 =>
               ret.values[1].right = Timestamp(args.year, calendar.month, calendar.day)

C4_Witness ==
    /\ op = "map_year"
    /\ ret.kind = "Series"
    /\ Len(ret.values) >= 2
    /\ ret.index[2] = Label(1)
    /\ ret.values[1].right = Timestamp(args.year, calendar.month, calendar.day)

\* C5: the intervals map_year returns go back in time without gap or
\* overlap: each has left < right, the right bound of t-(i+1) is the left
\* bound of t-i, and every day t with earliest left < t <= anchor lies in
\* exactly one interval (left < t <= right).
C5_MapYearAdjacentDisjoint ==
    (op = "map_year" /\ ret.kind = "Series") =>
        LET n == Len(ret.values)
        IN  /\ \A i \in 1..n : ret.values[i].left < ret.values[i].right
            /\ \A i \in 1..(n - 1) : ret.values[i + 1].right = ret.values[i].left
            /\ n >= 1 =>
                   \A t \in (ret.values[n].left + 1) .. ret.values[1].right :
                       Cardinality({ i \in 1..n : Contains(ret.values[i], t) }) = 1

C5_Witness ==
    /\ op = "map_year"
    /\ ret.kind = "Series"
    /\ Len(ret.values) >= 3
    /\ ret.values[3].right = ret.values[2].left
    /\ Contains(ret.values[2], ret.values[2].right)
    /\ ~Contains(ret.values[1], ret.values[2].right)

\* C6: for start <= end, map_years with flat=True is the concatenation of
\* map_year(y) for y from end down to start, numbered 0..N-1, and with
\* flat=False it has one row per year of start..end, in descending year
\* order, the row of year y being map_year(y); it raises when map_year
\* raises for one of the years.
C6_MapYearsIsConcatenation ==
    (op = "map_years" /\ args.start <= args.end) =>
        IF \E y \in args.start..args.end : ~AnchorExistsIn(calendar, y)
        THEN ret.kind = "raise"
        ELSE IF args.flat
        THEN /\ ret.kind = "Series"
             /\ ret.values = ConcatYearsDescending(calendar, args.start, args.end)
             /\ ret.index = [k \in 1..Len(ret.values) |-> k - 1]
        ELSE /\ ret.kind = "DataFrame"
             /\ Len(ret.index) = args.end - args.start + 1
             /\ Len(ret.data) = Len(ret.index)
             /\ \A r \in 1..Len(ret.index) :
                    LET y == args.end + 1 - r
                    IN  /\ ret.index[r] = Str(y)
                        /\ ret.data[r] = map_year(calendar, y).values
                        /\ ret.columns = map_year(calendar, y).index

C6_Witness ==
    /\ op = "map_years"
    /\ args.start < args.end
    /\ args.flat
    /\ ret.kind = "Series"
    /\ Len(ret.values) >= 4
    /\ ret.values[1] = map_year(calendar, args.end).values[1]
    /\ ret.values[Len(ret.values)].right < ret.values[1].left

\* C7: every interval map_year returns is as long as the calendar's freq,
\* and the interval with the same label is equally long in every other year
\* in which the anchor date exists, leap years included.
C7_SameLengthEveryYear ==
    (op = "map_year" /\ ret.kind = "Series") =>
        \A i \in 1..Len(ret.values) :
            /\ ret.values[i].right - ret.values[i].left = calendar.freq
            /\ \A y \in Years :
                   LET other == map_year(calendar, y)
                   IN  other.kind = "Series" =>
                           /\ Len(other.values) = Len(ret.values)
                           /\ other.values[i].right - other.values[i].left
                                  = ret.values[i].right - ret.values[i].left

C7_Witness ==
    /\ op = "map_year"
    /\ ret.kind = "Series"
    /\ IsLeap(args.year)
    /\ \E i \in 1..Len(ret.values) :
           /\ Contains(ret.values[i], Timestamp(args.year, 2, 29))
           /\ ret.values[i].right - ret.values[i].left = calendar.freq

\* bit k of a sum of the sample values 2^(k-1): sample k went into the sum
Bit(x, k) == (x \div Pow2(k - 1)) % 2 = 1

\* sample k contributed to the value of a cell
Contributed(value, k) == IF value = NaN THEN FALSE ELSE Bit(value[2], k)

\* no two intervals of the calendar overlap in a year
DisjointIntervals(self) ==
    LET ivs == realize_year(self, BaseYear).intervals
    IN  \A i \in 1..Len(ivs) : \A j \in 1..Len(ivs) :
            i < j => ivs[j].right <= ivs[i].left

ShortestLength(self) ==
    CHOOSE l \in { self.specs[i].length : i \in 1..Len(self.specs) } :
        \A i \in 1..Len(self.specs) : l <= self.specs[i].length

PassesBasicChecks(self, data) ==
    /\ Len(self.specs) >= 1
    /\ data.index_type = "datetime"
    /\ data.column \notin ReservedNames

\* the cells of a resampled frame, as <<row of the year, position>>
CellsOf(frame) ==
    UNION { { <<y, i>> : i \in 1..Len(frame.rows[y]) } : y \in 1..Len(frame.rows) }

\* the cells whose interval holds no sample of the data
EmptyCells(frame, data) ==
    { c \in CellsOf(frame) :
        \A k \in 1..Len(data.times) :
            ~( frame.rows[c[1]][c[2]].left < data.times[k]
               /\ data.times[k] <= frame.rows[c[1]][c[2]].right ) }

Count(seq, x) == Cardinality({ k \in 1..Len(seq) : seq[k] = x })

C13_Feb29RealizesEveryYear ==
    (op = "map_year" /\ calendar.month = 2 /\ calendar.day = 29) =>
        /\ ret.kind = "Series"
        /\ Len(ret.values) = calendar.n_intervals
        /\ (calendar.n_intervals >= 1 =>
               /\ ret.values[1].right > DaysBeforeYear(args.year)
               /\ ret.values[1].right <= DaysBeforeYear(args.year + 1))

-----------------------------------------------------------------------------
\* Construction of an AdventCalendar from any interval length, and the
\* methods that take no data: the calendar starts unbuilt, __init__ binds a
\* new object or raises and leaves the binding as it was.

\* the interval lengths, in days, offered to __init__: "-60d", "-7d", "0d", ...
BuildFreqs == {-60, -7, 0, 7, 60, 180, 400}

\* no object has been built yet
NoCalendar == [kind |-> "unbound"]

\* AdventCalendar(anchor_date, freq): __init__ has no check of freq; the
\* floor division of 365 days by a zero timedelta raises, every other
\* length, negative ones included, gives an object
construct(anchor_date, freq) ==
    IF freq = 0
    THEN Raise("ZeroDivisionError", "integer division or modulo by zero")
    ELSE AdventCalendar(anchor_date, freq)

\* map_year on any built calendar. With a negative number of periods
\* pd.interval_range depends on the installed pandas and numpy: it raises
\* from the range generation, or it returns no intervals
map_year_outcomes(self, year) ==
    IF ValidDate(year, self.month, self.day) /\ self.n_intervals < 0
    THEN { map_year(self, year),
           Raise("OutOfBoundsDatetime", "Cannot generate range"),
           Raise("OverflowError", "out of bounds for uint64") }
    ELSE { map_year(self, year) }

\* self.__dict__.items(), in the order __init__ assigns the attributes
dict_items(self) ==
    << <<"month", self.month>>, <<"day", self.day>>, <<"freq", self.freq>>,
       <<"_n_intervals", self.n_intervals>>, <<"_n_target", self.n_target>> >>

\* __repr__: the comprehension calls k.startwith('_') on the first key of
\* __dict__; str has no such method, so the call raises before anything is
\* joined. Only an object without attributes would get as far as the join
repr(self) ==
    IF Len(dict_items(self)) >= 1
    THEN Raise("AttributeError", "'str' object has no attribute 'startwith'")
    ELSE [kind |-> "str", text |-> <<"AdventCalendar", "(", ")">>]

InitBuild ==
    /\ calendar = NoCalendar
    /\ op = "ready"
    /\ args = <<>>
    /\ ret = "None"

Construct ==
    \E anchor_date \in AnchorDates, freq \in BuildFreqs :
        /\ op = "ready"
        /\ op' = "__init__"
        /\ args' = [anchor_date |-> anchor_date, freq |-> freq]
        /\ LET built == construct(anchor_date, freq)
           IN  IF "exc" \in DOMAIN built
               THEN ret' = built /\ UNCHANGED calendar
               ELSE ret' = [kind |-> "None"] /\ calendar' = built

MapYearBuilt ==
    \E year \in Years :
        /\ op = "ready"
        /\ calendar # NoCalendar
        /\ op' = "map_year"
        /\ args' = [year |-> year]
        /\ ret' \in map_year_outcomes(calendar, year)
        /\ UNCHANGED calendar

Repr ==
    /\ op = "ready"
    /\ calendar # NoCalendar
    /\ op' = "__repr__"
    /\ args' = <<>>
    /\ ret' = repr(calendar)
    /\ UNCHANGED calendar

NextBuild == Construct \/ MapYearBuilt \/ Repr \/ Discard

SpecBuild == InitBuild /\ [][NextBuild]_vars

\* C14: __init__ with an interval length of zero or less raises a
\* configuration error, and no built calendar has such a length.
C14_NonPositiveLengthRejected ==
    /\ (op = "__init__" /\ args.freq <= 0) =>
           /\ ret.kind = "raise"
           /\ ret.exc \in {"ConfigurationError", "ValueError"}
    /\ (calendar # NoCalendar => calendar.freq > 0)

\* the text the docstrings show for repr(calendar):
\* AdventCalendar(month=<m>, day=<d>, freq=<f>)
ExpectedRepr(self) ==
    [kind |-> "str",
     text |-> <<"AdventCalendar", "(", "month=", self.month, ", ",
                "day=", self.day, ", ", "freq=", self.freq, ")">>]

\* C16: repr(calendar) does not raise and returns the class name with the
\* public attributes month, day, freq and none of the private ones.
C16_ReprShowsPublicAttributes ==
    op = "__repr__" => ret = ExpectedRepr(calendar)

-----------------------------------------------------------------------------
\* map_to_data on input data of any kind: the method reads
\* input_data.index.min() and .max() and then their .year, with no test of
\* the type of the index.

\* the first and last dates of the timestamp-indexed inputs
IndexDates == { d \in DataDates : d.day = 1 }

\* the inputs: a timestamp index from min to max, an integer index (a
\* RangeIndex, as reset_index() leaves it), and a container without index
InputData ==
    { [index_type |-> "datetime", min |-> first, max |-> last] :
        first \in IndexDates, last \in IndexDates }
    \cup { [index_type |-> "int", min |-> 0, max |-> n] : n \in 0..1 }
    \cup { [index_type |-> "none"] }

\* map_to_data from its first line: the attribute lookups of lines 192-198
\* fail on an input without index and on index values that are no
\* timestamps; timestamps go on to the checks of the years
map_to_data_of_input(self, input_data, flat) ==
    IF input_data.index_type = "none"
    THEN Raise("AttributeError", "object has no attribute 'index'")
    ELSE IF input_data.index_type # "datetime"
    THEN Raise("AttributeError", "object has no attribute 'year'")
    ELSE map_to_data(self, input_data.min, input_data.max, flat)

MapToDataOfInput ==
    \E input_data \in InputData, flat \in BOOLEAN :
        /\ op = "ready"
        /\ input_data.index_type = "datetime" =>
               DateOrd(input_data.min) <= DateOrd(input_data.max)
        /\ op' = "map_to_data"
        /\ args' = [input_data |-> input_data, flat |-> flat]
        /\ ret' = map_to_data_of_input(calendar, input_data, flat)
        /\ UNCHANGED calendar

NextIndex == MapToDataOfInput \/ Discard

SpecIndex == Init /\ [][NextIndex]_vars

\* C15: map_to_data on input whose time axis is not timestamp-typed raises
\* the invalid-index error (a ValueError) and returns no intervals.
C15_NonTimeIndexRaisesInvalidIndex ==
    (op = "map_to_data" /\ args.input_data.index_type # "datetime") =>
        /\ ret.kind = "raise"
        /\ ret.exc \in {"InvalidIndexError", "ValueError"}

\* C17: no call of map_year, map_years or map_to_data, returning or raising,
\* changes the calendar (month, day, freq, number of intervals), and what a
\* call returns is fixed by the calendar as the call leaves it and by the
\* arguments, so the same call made again returns the same value.
C17_RealizationLeavesCalendar ==
    [][ /\ calendar' = calendar
        /\ (op' = "map_year" => ret' = map_year(calendar', args'.year))
        /\ (op' = "map_years" =>
               ret' = map_years(calendar', args'.start, args'.end, args'.flat))
        /\ (op' = "map_to_data" =>
               ret' = map_to_data(calendar', args'.first, args'.last, args'.flat))
      ]_vars

C17_Witness ==
    /\ op = "map_year"
    /\ ret.kind = "raise"
    /\ calendar = AdventCalendar(<<calendar.month, calendar.day>>, calendar.freq)
    /\ calendar.n_intervals >= 1

\* the years after y up to the next year in which a 29 February exists
LaterYears(y) == (y + 1)..(y + 4)

\* C18: the intervals of two anchor years never overlap: when map_year
\* returns the intervals of year y, the earliest interval of every later
\* year that can be realized starts on or after the anchor of y (the right
\* bound of t-0); and n_intervals times the interval length is at most 365
\* days.
C18_AnchorYearsDoNotOverlap ==
    (op = "map_year" /\ ret.kind = "Series") =>
        /\ calendar.n_intervals * calendar.freq <= DaysPerYear
        /\ \A y2 \in LaterYears(args.year) :
               LET later == map_year(calendar, y2)
               IN  (later.kind = "Series" /\ Len(later.values) >= 1
                    /\ Len(ret.values) >= 1) =>
                       /\ later.values[Len(later.values)].left >= ret.values[1].right
                       /\ \A i \in 1..Len(ret.values), j \in 1..Len(later.values) :
                              \/ ret.values[i].right <= later.values[j].left
                              \/ later.values[j].right <= ret.values[i].left

C18_Witness ==
    /\ op = "map_year"
    /\ ret.kind = "Series"
    /\ Len(ret.values) >= 2
    /\ LET later == map_year(calendar, args.year + 1)
       IN  /\ later.kind = "Series"
           /\ later.values[Len(later.values)].left - ret.values[1].right \in {1, 2}

\* C19: what map_to_data returns is what map_years returns, with the same
\* flat, for the first to the last anchor year the data covers: also for a
\* single covered year, where that is a table with one row (flat = FALSE) or
\* a series indexed 0..n-1 (flat = TRUE), not the series of map_year with
\* its labels t-0, t-1, ...
C19_MapToDataIsMapYears ==
    (op = "map_to_data" /\ ret.kind # "raise") =>
        \E first_year \in {args.first.year, args.first.year + 1},
           last_year \in {args.last.year - 1, args.last.year} :
            /\ first_year <= last_year
            /\ ret = map_years(calendar, first_year, last_year, args.flat)

-----------------------------------------------------------------------------
\* The plot data of one anchor year (s2spy/_plot.py): generate_plot_data
\* takes a calendar, of which it reads n_targets and the anchor, and the
\* intervals of one anchor year in time order, the targets last.

\* the largest number of intervals of an anchor year
MaxPlotIntervals == 4

PlotAnchors == {<<12, 31>>, <<1, 10>>, <<6, 30>>}
PlotLengths == {7, 30}

Orange == "#ff7700"
OrangeDarker == "#ffa100"
Blue == "#1f9ce9"
BlueDarker == "#137fc1"
White == "#ffffff"

\* a python slice bound on a sequence of the given length: negative bounds
\* count from the end, and all bounds are clipped
SliceBound(i, length) ==
    IF i < 0
    THEN (IF length + i < 0 THEN 0 ELSE length + i)
    ELSE (IF i > length THEN length ELSE i)

\* the 0-based positions of a[start:stop:step], step > 0
SliceIndices(length, start, stop, step) ==
    { i \in 0..(length - 1) :
        /\ i >= SliceBound(start, length)
        /\ i < SliceBound(stop, length)
        /\ (i - SliceBound(start, length)) % step = 0 }

\* numpy a[start:stop:step] = value
SetSlice(a, start, stop, step, value) ==
    [k \in 1..Len(a) |->
        IF (k - 1) \in SliceIndices(Len(a), start, stop, step) THEN value ELSE a[k]]

make_color_array(n_targets, n_intervals) ==
    LET colors == [k \in 1..n_intervals |-> White]
        with_targets ==
            IF n_targets > 0
            THEN SetSlice(SetSlice(colors, 0, n_targets, 2, Orange),
                          1, n_targets, 2, OrangeDarker)
            ELSE colors
        with_precursors ==
            IF n_intervals - n_targets > 0
            THEN SetSlice(SetSlice(with_targets, n_targets, n_intervals, 2, Blue),
                          n_targets + 1, n_intervals, 2, BlueDarker)
            ELSE with_targets
    IN  Reversed(with_precursors)

\* Timestamp.year of a day number
YearOf(t) ==
    CHOOSE y \in (BaseYear - 2)..(BaseYear + NumYears + 1) :
        DaysBeforeYear(y) < t /\ t <= DaysBeforeYear(y + 1)

\* calendar._get_anchor(year): the anchor date in the given year
get_anchor(self, year) == Timestamp(year, self.anchor[1], self.anchor[2])

\* _get_widths: day counts for relative dates, Timedeltas otherwise
get_widths(relative_dates, year_intervals) ==
    [k \in 1..Len(year_intervals) |->
        IF relative_dates
        THEN year_intervals[k].right - year_intervals[k].left
        ELSE <<"Timedelta", year_intervals[k].right - year_intervals[k].left>>]

\* _get_xdata: the middle of every interval, in half days, counted from the
\* anchor for relative dates and as a date otherwise
get_xdata(relative_dates, year_intervals, anchor_date) ==
    [k \in 1..Len(year_intervals) |->
        LET iv == year_intervals[k]
        IN  IF relative_dates
            THEN <<"halves", 2 * (iv.left - anchor_date) + (iv.right - iv.left)>>
            ELSE <<"Timestamp", "halves", 2 * iv.left + (iv.right - iv.left)>>]

generate_plot_data(self, relative_dates, year_intervals) ==
    LET n == Len(year_intervals)
    IN  IF n = 0
        THEN Raise("IndexError", "index -1 is out of bounds for axis 0 with size 0")
        ELSE
        LET n_targets == self.n_targets
            anchor_date == get_anchor(self, YearOf(year_intervals[n].left))
            widths == get_widths(relative_dates, year_intervals)
            types == SetSlice([k \in 1..n |-> "Precursor"], -n_targets, n, 1, "Target")
        IN  [kind |-> "dict",
             x |-> get_xdata(relative_dates, year_intervals, anchor_date),
             y |-> [k \in 1..n |-> YearOf(anchor_date)],
             height |-> [k \in 1..n |-> <<"tenths", 8>>],
             width |-> widths,
             width_days |-> [k \in 1..n |->
                                year_intervals[k].right - year_intervals[k].left],
             color |-> make_color_array(n_targets, n),
             desc |-> [k \in 1..n |->
                          <<year_intervals[k].left, "->", year_intervals[k].right>>],
             type |-> types]

\* the calendars handed to the plot: an anchor and a number of targets
PlotCalendars ==
    { [anchor |-> a, n_targets |-> t] : a \in PlotAnchors, t \in 0..MaxPlotIntervals }

\* the intervals of one anchor year in time order: the precursors up to the
\* anchor, then the n_targets targets from the anchor on
YearIntervals(self, year, n_intervals, length) ==
    interval_range(get_anchor(self, year) + self.n_targets * length,
                   n_intervals, length)

InitPlot ==
    /\ calendar \in PlotCalendars
    /\ op = "ready"
    /\ args = <<>>
    /\ ret = "None"

GeneratePlotData ==
    \E relative_dates \in BOOLEAN, year \in Years,
       n_intervals \in calendar.n_targets..MaxPlotIntervals, length \in PlotLengths :
        /\ op = "ready"
        /\ op' = "generate_plot_data"
        /\ args' = [relative_dates |-> relative_dates,
                    year_intervals |-> YearIntervals(calendar, year, n_intervals, length)]
        /\ ret' = generate_plot_data(calendar, relative_dates, args'.year_intervals)
        /\ UNCHANGED calendar

NextPlot == GeneratePlotData \/ Discard

SpecPlot == InitPlot /\ [][NextPlot]_vars

\* C20: in the plot data of a calendar with n_targets from 0 to the number
\* of intervals, an entry has the type "Target" exactly when its colour is
\* one of the two orange ones; exactly n_targets entries are "Target" and
\* the others "Precursor"; and no entry is left white.
C20_TargetTypeMatchesColour ==
    (op = "generate_plot_data" /\ ret.kind = "dict") =>
        LET n == Len(ret.type)
        IN  /\ \A k \in 1..n :
                   /\ (ret.type[k] = "Target") <=> (ret.color[k] \in {Orange, OrangeDarker})
                   /\ ret.type[k] \in {"Target", "Precursor"}
                   /\ ret.color[k] # White
            /\ Cardinality({ k \in 1..n : ret.type[k] = "Target" }) = calendar.n_targets

====
